---------------------------- MODULE Spec2Model ----------------------------
(***************************************************************************)
(* Model of the two utilities of the repository:                           *)
(*                                                                         *)
(*   src/main.py                       the docker-compose generator: loads *)
(*                                      the template, builds the host list *)
(*                                      from latencies_to_node_count,      *)
(*                                      renders and prints it.             *)
(*   src/web/server_example/script.py  the static file server with the     *)
(*                                      CORS header (CORSRequestHandler).  *)
(*                                                                         *)
(* Python strings are TLA+ strings; a Python list is a sequence; the dict  *)
(* latencies_to_node_count is the sequence of its (key, value) items in    *)
(* insertion order, which is the order dict.items() iterates in.           *)
(***************************************************************************)
EXTENDS Integers, Sequences, FiniteSets, TLC

VARIABLES
    pc,           \* main.py: the statement the interpreter is at
    fs,           \* main.py: the file docker-compose.yaml.j2 in "./"
    template,     \* main.py:3   the loaded template (or NoTemplate)
    mapping,      \* main.py:18  latencies_to_node_count, as its items
    it,           \* main.py:25  position of the for loop's iterator
    hostlist,     \* main.py:17  the accumulated host list
    renderArgs,   \* main.py:28  the keyword arguments of every render call
    rendered,     \* main.py:28  the value template.render returned
    stdout,       \* main.py:28  what print has written, one entry per call
    exitCode,     \* main.py     the process's exit status (Running until it ends)
    run,          \* which invocation of the program this is
    prevHostlist, \* the host list the previous invocation built
    prevStdout,   \* the standard output of the previous invocation
    argv,         \* script.py: sys.argv, each argument a sequence of characters
    spc,          \* script.py: where the server process is
    port,         \* script.py:12 the port handed to test(): <<p>>, or NoPort
    bound,        \* the port the listening socket is bound to: <<p>>, or NoPort
    srvExit,      \* script.py: the server process's exit status
    req,          \* the request the handler is serving (NoRequest if none)
    calls,        \* the calls the handler has still to make for this request
    hbuf,         \* BaseHTTPRequestHandler._headers_buffer
    wire          \* what the handler has written to the connection (wfile)

genVars == <<pc, fs, template, mapping, it, hostlist, renderArgs, rendered,
             stdout, exitCode, run, prevHostlist, prevStdout>>

srvVars == <<argv, spc, port, bound, srvExit, req, calls, hbuf, wire>>

vars == <<genVars, srvVars>>

-----------------------------------------------------------------------------
(* Bounds of the model. *)

\* The most entries a generated latency-to-count mapping has.
MaxEntries == 3

\* The largest replica count of a generated mapping.
MaxCount == 2

\* How many times the program is invoked in a row.
MaxRuns == 2

\* The labels generated mappings draw their keys from: opaque strings, two of
\* the program's own and two whose formatted names come close to each other
\* ("a" with index 0 against "a_0").
Labels == {"100ms", "200ms", "a", "a_0"}

-----------------------------------------------------------------------------
(* Values. *)

\* A process that has not ended has no exit status; one that has ended has <<status>>.
Running == <<>>
NoTemplate == [loaded |-> FALSE]
NoOutput == "<none>"

\* main.py:18-23, the hard-coded mapping.
latencies_to_node_count ==
    << <<"100ms", 1>>, <<"200ms", 2>>, <<"300ms", 3>>, <<"400ms", 4>> >>

\* Sequences over S of length at most n.
SeqUpTo(S, n) == UNION {[1..k -> S] : k \in 0..n}

\* A dict's items: the keys are pairwise distinct.
IsDict(m) == \A i, j \in DOMAIN m : m[i][1] = m[j][1] => i = j

\* The mappings the generator is run with: the hard-coded one, and every
\* mapping of at most MaxEntries distinct labels to counts in 0..MaxCount.
Mappings ==
    {latencies_to_node_count} \cup
    {m \in SeqUpTo(Labels \X (0..MaxCount), MaxEntries) : IsDict(m)}

\* The contents docker-compose.yaml.j2 can have. A template body is a list of
\* tokens standing for the body of {% for h in hosts %} ... {% endfor %}:
\* "name", "latency", "volume_name" are {{ h.<field> }}, "-" is literal text,
\* "{%" is an unclosed block tag (a syntax error) and "undef" is
\* {{ h.nosuch.attr }}, which raises UndefinedError when it is evaluated.
TemplateFiles ==
    { [exists |-> FALSE, body |-> <<>>],
      [exists |-> TRUE, body |-> <<>>],
      [exists |-> TRUE, body |-> <<"name", "-", "latency", "-", "volume_name">>],
      [exists |-> TRUE, body |-> <<"volume_name", "name">>],
      [exists |-> TRUE, body |-> <<"name", "{%">>],
      [exists |-> TRUE, body |-> <<"name", "undef">>] }

-----------------------------------------------------------------------------
(* Pure functions of main.py. *)

Digit(d) ==
    CASE d = 0 -> "0" [] d = 1 -> "1" [] d = 2 -> "2" [] d = 3 -> "3"
      [] d = 4 -> "4" [] d = 5 -> "5" [] d = 6 -> "6" [] d = 7 -> "7"
      [] d = 8 -> "8" [] d = 9 -> "9"

\* The %d conversion of a non-negative integer: its decimal digits.
RECURSIVE FormatNat(_)
FormatNat(n) == IF n < 10 THEN Digit(n) ELSE FormatNat(n \div 10) \o Digit(n % 10)

\* The %d conversion.
FormatD(n) == IF n < 0 THEN "-" \o FormatNat(-n) ELSE FormatNat(n)

\* "drand_container_%d" % i: a name that leaves the latency out.
ContainerNameNoLatency(latency, i) == "drand_container_" \o FormatD(i)

\* main.py:10  "drand_container_%s_%d" % (latency, i)
ContainerName(latency, i) == "drand_container_" \o latency \o "_" \o FormatD(i)

\* "drand_volume_%s_%d" % (latency, i + 1): the volumes numbered from one.
VolumeNameOneBased(latency, i) == "drand_volume_" \o latency \o "_" \o FormatD(i + 1)

\* main.py:12  "drand_volume_%s_%d" % (latency, i)
VolumeName(latency, i) == "drand_volume_" \o latency \o "_" \o FormatD(i)

\* range(max(count, 1)): no label is left without a node.
RangeAtLeastOne(count) == [k \in 1..(IF count < 1 THEN 1 ELSE count) |-> k - 1]

\* range(count + 1): one index too many.
RangeOffByOne(count) == [k \in 1..(count + 1) |-> k - 1]

\* main.py:14  range(count): 0, 1, ..., count-1 (empty when count <= 0).
Range(count) == [k \in 1..count |-> k - 1]

\* main.py:7-15
make_container_list(latency, count) ==
    LET r == Range(count)
    IN  [k \in DOMAIN r |->
            [name        |-> ContainerName(latency, r[k]),
             latency     |-> latency,
             volume_name |-> VolumeName(latency, r[k])]]

\* make_container_list(l, c) + hostlist: the new block put in front.
PrependBlock(hosts, block) == block \o hosts

\* main.py:26  hostlist + make_container_list(l, c)
Concat(hosts, block) == hosts \o block

\* main.py:17-26  the host list the program builds from mapping m: the loop
\* run over the items m[1], ..., m[n].
RECURSIVE HostlistOf(_, _)
HostlistOf(m, n) ==
    IF n = 0 THEN <<>>
    ELSE Concat(HostlistOf(m, n - 1), make_container_list(m[n][1], m[n][2]))

\* The accumulator carried over from the previous invocation.
StaleHostlist == prevHostlist

\* main.py:17  hostlist = []
EmptyHostlist == <<>>

\* A loader that does not compile the template it loads.
SyntaxNotChecked(body) == TRUE

\* jinja2's parse of a template body: an unclosed block tag is a syntax error.
SyntaxOk(body) == \A k \in DOMAIN body : body[k] # "{%"

\* What one token of the loop body renders to for host h.
RenderToken(tok, h) ==
    CASE tok = "name"        -> h.name
      [] tok = "latency"     -> h.latency
      [] tok = "volume_name" -> h.volume_name
      [] OTHER               -> tok

RECURSIVE RenderHost(_, _)
RenderHost(body, h) ==
    IF body = <<>> THEN "\n"
    ELSE RenderToken(Head(body), h) \o RenderHost(Tail(body), h)

RECURSIVE RenderHosts(_, _)
RenderHosts(body, hosts) ==
    IF hosts = <<>> THEN ""
    ELSE RenderHost(body, Head(hosts)) \o RenderHosts(body, Tail(hosts))

\* Whether rendering raises: {{ h.nosuch.attr }} is evaluated once per host.
RenderRaises(body, hosts) ==
    hosts # <<>> /\ \E k \in DOMAIN body : body[k] = "undef"

\* A render call that binds the host list short of its last descriptor.
RenderKwargsPartial(hosts) == [hosts |-> SubSeq(hosts, 1, Len(hosts) - 1)]

\* main.py:28  the keyword arguments of template.render(hosts=hostlist)
RenderKwargs(hosts) == [hosts |-> hosts]

-----------------------------------------------------------------------------
(* main.py, statement by statement. *)

GenInit ==
    /\ pc = "load"
    /\ fs \in TemplateFiles
    /\ template = NoTemplate
    /\ mapping \in Mappings
    /\ it = 0
    /\ hostlist = <<>>
    /\ renderArgs = <<>>
    /\ rendered = NoOutput
    /\ stdout = <<>>
    /\ exitCode = Running
    /\ run = 1
    /\ prevHostlist = <<>>
    /\ prevStdout = <<>>

\* An uncaught exception: the traceback goes to standard error, the status is 1.
Raise ==
    /\ pc' = "exited"
    /\ exitCode' = <<1>>

\* main.py:3-5  get_template raises TemplateNotFound or TemplateSyntaxError.
LoadTemplateFails ==
    /\ pc = "load"
    /\ ~fs.exists \/ ~SyntaxOk(fs.body)
    /\ Raise
    /\ UNCHANGED <<fs, template, mapping, it, hostlist, renderArgs, rendered,
                   stdout, run, prevHostlist, prevStdout>>

\* main.py:3-5  get_template returns the compiled template.
LoadTemplate ==
    /\ pc = "load"
    /\ fs.exists /\ SyntaxOk(fs.body)
    /\ template' = [loaded |-> TRUE, body |-> fs.body]
    /\ pc' = "init"
    /\ UNCHANGED <<fs, mapping, it, hostlist, renderArgs, rendered, stdout,
                   exitCode, run, prevHostlist, prevStdout>>

\* main.py:17-25  hostlist = [], the mapping literal, and the loop's iterator.
InitHostlist ==
    /\ pc = "init"
    /\ hostlist' = EmptyHostlist
    /\ it' = 1
    /\ pc' = "loop"
    /\ UNCHANGED <<fs, template, mapping, renderArgs, rendered, stdout,
                   exitCode, run, prevHostlist, prevStdout>>

\* main.py:25-26  one iteration of the accumulation loop.
LoopIteration ==
    /\ pc = "loop"
    /\ it <= Len(mapping)
    /\ LET l == mapping[it][1]
           c == mapping[it][2]
       IN  hostlist' = Concat(hostlist, make_container_list(l, c))
    /\ it' = it + 1
    /\ UNCHANGED <<pc, fs, template, mapping, renderArgs, rendered, stdout,
                   exitCode, run, prevHostlist, prevStdout>>

\* main.py:25  the iterator is exhausted.
LoopEnd ==
    /\ pc = "loop"
    /\ it > Len(mapping)
    /\ pc' = "render"
    /\ UNCHANGED <<fs, template, mapping, it, hostlist, renderArgs, rendered,
                   stdout, exitCode, run, prevHostlist, prevStdout>>

\* main.py:28  template.render(hosts=hostlist) raises.
RenderFails ==
    /\ pc = "render"
    /\ RenderRaises(template.body, RenderKwargs(hostlist).hosts)
    /\ renderArgs' = Append(renderArgs, RenderKwargs(hostlist))
    /\ Raise
    /\ UNCHANGED <<fs, template, mapping, it, hostlist, rendered, stdout, run,
                   prevHostlist, prevStdout>>

\* main.py:28  template.render(hosts=hostlist) returns the text.
Render ==
    /\ pc = "render"
    /\ ~RenderRaises(template.body, RenderKwargs(hostlist).hosts)
    /\ renderArgs' = Append(renderArgs, RenderKwargs(hostlist))
    /\ rendered' = RenderHosts(template.body, RenderKwargs(hostlist).hosts)
    /\ pc' = "print"
    /\ UNCHANGED <<fs, template, mapping, it, hostlist, stdout, exitCode, run,
                   prevHostlist, prevStdout>>

\* main.py:28  print(...): the text and the newline print ends it with.
PrintOutput ==
    /\ pc = "print"
    /\ stdout' = Append(stdout, rendered \o "\n")
    /\ pc' = "end"
    /\ UNCHANGED <<fs, template, mapping, it, hostlist, renderArgs, rendered,
                   exitCode, run, prevHostlist, prevStdout>>

\* The end of the script: the interpreter exits with status 0.
Exit ==
    /\ pc = "end"
    /\ pc' = "exited"
    /\ exitCode' = <<0>>
    /\ UNCHANGED <<fs, template, mapping, it, hostlist, renderArgs, rendered,
                   stdout, run, prevHostlist, prevStdout>>

\* The program is invoked again, in a new process, with the same mapping and
\* the same template file; what the finished invocation built is kept aside.
Reinvoke ==
    /\ pc = "exited"
    /\ run < MaxRuns
    /\ run' = run + 1
    /\ prevHostlist' = hostlist
    /\ prevStdout' = stdout
    /\ pc' = "load"
    /\ template' = NoTemplate
    /\ it' = 0
    /\ hostlist' = <<>>
    /\ renderArgs' = <<>>
    /\ rendered' = NoOutput
    /\ stdout' = <<>>
    /\ exitCode' = Running
    /\ UNCHANGED <<fs, mapping>>

-----------------------------------------------------------------------------
(* script.py: the command line. *)

\* None: no port yet.
NoPort == <<>>
NoRequest == [kind |-> "none", version |-> "none"]

\* The name the script is started under, sys.argv[0].
ScriptName == <<"s", "c", "r", "i", "p", "t", ".", "p", "y">>

\* The command lines the server is started with: no argument, a port in
\* several spellings int() accepts, text int() rejects, numbers that are no
\* port, and a second argument after the port.
Argvs ==
    { <<ScriptName>>,
      <<ScriptName, <<"8", "0", "8", "0">> >>,
      <<ScriptName, <<"8", "0", "0", "0">> >>,
      <<ScriptName, <<"9", "0">> >>,
      <<ScriptName, <<"+", "8", "1">> >>,
      <<ScriptName, <<" ", "9", "0", "0", "1", " ">> >>,
      <<ScriptName, <<"8", "_", "0", "8", "8">> >>,
      <<ScriptName, <<"0">> >>,
      <<ScriptName, <<"-", "1">> >>,
      <<ScriptName, <<"7", "0", "0", "0", "0">> >>,
      <<ScriptName, <<"x">> >>,
      <<ScriptName, <<"8", "_">> >>,
      <<ScriptName, <<>> >>,
      <<ScriptName, <<"8", "0", "8", "1">>, <<"9", "0">> >> }

\* The ports the system hands out when the program binds port 0.
EphemeralPorts == {32768, 49152}

IsDigit(ch) == ch \in {"0", "1", "2", "3", "4", "5", "6", "7", "8", "9"}

DigitValue(ch) ==
    CASE ch = "0" -> 0 [] ch = "1" -> 1 [] ch = "2" -> 2 [] ch = "3" -> 3
      [] ch = "4" -> 4 [] ch = "5" -> 5 [] ch = "6" -> 6 [] ch = "7" -> 7
      [] ch = "8" -> 8 [] ch = "9" -> 9

\* int() ignores white space around the number.
RECURSIVE StripLeft(_)
StripLeft(s) == IF s # <<>> /\ Head(s) = " " THEN StripLeft(Tail(s)) ELSE s

RECURSIVE StripRight(_)
StripRight(s) ==
    IF s # <<>> /\ s[Len(s)] = " " THEN StripRight(SubSeq(s, 1, Len(s) - 1)) ELSE s

\* The digits of an int() literal: at least one digit, and an underscore only
\* between two digits.
DigitsOk(s) ==
    /\ s # <<>>
    /\ \A k \in DOMAIN s : IsDigit(s[k]) \/ s[k] = "_"
    /\ IsDigit(s[1]) /\ IsDigit(s[Len(s)])
    /\ \A k \in 1..(Len(s) - 1) : ~(s[k] = "_" /\ s[k + 1] = "_")

\* The value of the digits, the underscores skipped.
RECURSIVE DigitsValue(_, _)
DigitsValue(s, acc) ==
    IF s = <<>> THEN acc
    ELSE IF Head(s) = "_" THEN DigitsValue(Tail(s), acc)
    ELSE DigitsValue(Tail(s), 10 * acc + DigitValue(Head(s)))

\* int(s) of a string: [ok |-> FALSE] stands for ValueError.
PyInt(s) ==
    LET t    == StripRight(StripLeft(s))
        sign == IF t # <<>> /\ Head(t) = "-" THEN -1 ELSE 1
        d    == IF t # <<>> /\ Head(t) \in {"+", "-"} THEN Tail(t) ELSE t
    IN  IF DigitsOk(d) THEN [ok |-> TRUE, val |-> sign * DigitsValue(d, 0)]
        ELSE [ok |-> FALSE, val |-> 0]

\* script.py:12  the default port.
DefaultPort == 8000

\* len(sys.argv) > 2: the first argument alone is not looked at.
HasPortArgOffByOne(args) == Len(args) > 2

\* script.py:12  len(sys.argv) > 1  (sys.argv[0] is args[1])
HasPortArg(args) == Len(args) > 1

\* script.py:12  int(sys.argv[1]) if len(sys.argv) > 1 else 8000
PortExpr(args) ==
    IF HasPortArg(args) THEN PyInt(args[2]) ELSE [ok |-> TRUE, val |-> DefaultPort]

-----------------------------------------------------------------------------
(* script.py: the request handler. *)

\* The requests a client sends: for an existing file, for a file that does
\* not exist, for a file unchanged since If-Modified-Since, and a request line
\* that cannot be parsed; each with the version its request line carries
\* ("HTTP/0.9" is a request line without a version, such as "GET /f").
Requests ==
    [kind : {"file", "missing", "notmodified", "bad"},
     version : {"HTTP/0.9", "HTTP/1.0", "HTTP/1.1"}]

\* The status the library answers a request with.
StatusOf(r) ==
    CASE r.kind = "file"        -> 200
      [] r.kind = "missing"     -> 404
      [] r.kind = "notmodified" -> 304
      [] r.kind = "bad"         -> 400

\* The calls SimpleHTTPRequestHandler makes on the handler to answer r:
\* send_head for a file, send_error for an error.
CallsFor(r) ==
    CASE r.kind = "file" ->
            << <<"send_response", 200>>,
               <<"send_header", "Content-type", "text/plain">>,
               <<"send_header", "Content-Length", "6">>,
               <<"end_headers">>, <<"body">> >>
      [] r.kind = "notmodified" ->
            << <<"send_response", 304>>, <<"end_headers">> >>
      [] OTHER ->
            << <<"send_response", StatusOf(r)>>,
               <<"send_header", "Connection", "close">>,
               <<"send_header", "Content-Type", "text/html;charset=utf-8">>,
               <<"end_headers">>, <<"body">> >>

\* BaseHTTPRequestHandler.send_response_only: the status line goes to the
\* headers buffer, unless the request is an HTTP/0.9 one.
SendResponseOnly(buf, version, code) ==
    IF version # "HTTP/0.9"
    THEN Append(buf, "HTTP/1.0 " \o FormatD(code) \o "\r\n")
    ELSE buf

\* BaseHTTPRequestHandler.send_header: "%s: %s\r\n" goes to the headers
\* buffer, unless the request is an HTTP/0.9 one.
SendHeader(buf, version, keyword, value) ==
    IF version # "HTTP/0.9"
    THEN Append(buf, keyword \o ": " \o value \o "\r\n")
    ELSE buf

\* BaseHTTPRequestHandler.send_response: the status line and two headers.
SendResponse(buf, version, code) ==
    SendHeader(SendHeader(SendResponseOnly(buf, version, code),
                          version, "Server", "SimpleHTTP"),
               version, "Date", "today")

\* SimpleHTTPRequestHandler.end_headers: the blank line, and the buffer is
\* flushed to the connection, unless the request is an HTTP/0.9 one.
BaseEndHeaders(buf, out, version) ==
    IF version # "HTTP/0.9"
    THEN [hbuf |-> <<>>, wire |-> out \o Append(buf, "\r\n")]
    ELSE [hbuf |-> buf, wire |-> out]

\* A handler that does not override end_headers.
EndHeadersNotOverridden(buf, out, version) == BaseEndHeaders(buf, out, version)

\* script.py:6-8  CORSRequestHandler.end_headers
end_headers(buf, out, version) ==
    BaseEndHeaders(SendHeader(buf, version, "Access-Control-Allow-Origin", "*"),
                   out, version)

-----------------------------------------------------------------------------
(* script.py, step by step. *)

SrvInit ==
    /\ argv \in Argvs
    /\ spc = "main"
    /\ port = NoPort
    /\ bound = NoPort
    /\ srvExit = Running
    /\ req = NoRequest
    /\ calls = <<>>
    /\ hbuf = <<>>
    /\ wire = <<>>

\* script.py:12  int(sys.argv[1]) raises ValueError: the process ends.
MainFails ==
    /\ spc = "main"
    /\ ~PortExpr(argv).ok
    /\ spc' = "exited"
    /\ srvExit' = <<1>>
    /\ UNCHANGED <<argv, port, bound, req, calls, hbuf, wire>>

\* script.py:10-12  the port is computed and test() is called with it.
Main ==
    /\ spc = "main"
    /\ PortExpr(argv).ok
    /\ port' = <<PortExpr(argv).val>>
    /\ spc' = "bind"
    /\ UNCHANGED <<argv, bound, srvExit, req, calls, hbuf, wire>>

\* test(): the server socket cannot be bound (the number is no port, or the
\* port is taken or not permitted): the exception ends the process.
BindFails ==
    /\ spc = "bind"
    /\ spc' = "exited"
    /\ srvExit' = <<1>>
    /\ UNCHANGED <<argv, port, bound, req, calls, hbuf, wire>>

\* test(): the server socket is bound; port 0 asks the system for any port.
Bind ==
    /\ spc = "bind"
    /\ port[1] \in 0..65535
    /\ IF port[1] = 0 THEN \E p \in EphemeralPorts : bound' = <<p>>
       ELSE bound' = port
    /\ spc' = "accept"
    /\ UNCHANGED <<argv, port, srvExit, req, calls, hbuf, wire>>

\* serve_forever(): a request arrives and the handler parses its request line.
Accept ==
    /\ spc = "accept"
    /\ \E r \in Requests :
        /\ req' = r
        /\ calls' = CallsFor(r)
    /\ hbuf' = <<>>
    /\ wire' = <<>>
    /\ spc' = "handle"
    /\ UNCHANGED <<argv, port, bound, srvExit>>

\* The handler's next call is send_response(code).
DoSendResponse ==
    /\ spc = "handle"
    /\ calls # <<>> /\ Head(calls)[1] = "send_response"
    /\ hbuf' = SendResponse(hbuf, req.version, Head(calls)[2])
    /\ calls' = Tail(calls)
    /\ UNCHANGED <<argv, spc, port, bound, srvExit, req, wire>>

\* The handler's next call is send_header(keyword, value).
DoSendHeader ==
    /\ spc = "handle"
    /\ calls # <<>> /\ Head(calls)[1] = "send_header"
    /\ hbuf' = SendHeader(hbuf, req.version, Head(calls)[2], Head(calls)[3])
    /\ calls' = Tail(calls)
    /\ UNCHANGED <<argv, spc, port, bound, srvExit, req, wire>>

\* The handler's next call is self.end_headers(): script.py:6-8.
DoEndHeaders ==
    /\ spc = "handle"
    /\ calls # <<>> /\ Head(calls)[1] = "end_headers"
    /\ LET r == end_headers(hbuf, wire, req.version)
       IN  /\ hbuf' = r.hbuf
           /\ wire' = r.wire
    /\ calls' = Tail(calls)
    /\ UNCHANGED <<argv, spc, port, bound, srvExit, req>>

\* The handler writes the body: the file, or the error page.
DoBody ==
    /\ spc = "handle"
    /\ calls # <<>> /\ Head(calls)[1] = "body"
    /\ wire' = Append(wire, "<body>")
    /\ calls' = Tail(calls)
    /\ UNCHANGED <<argv, spc, port, bound, srvExit, req, hbuf>>

\* The response is complete; the server waits for the next request.
Finish ==
    /\ spc = "handle"
    /\ calls = <<>>
    /\ spc' = "sent"
    /\ UNCHANGED <<argv, port, bound, srvExit, req, calls, hbuf, wire>>

\* The connection is closed and the server accepts again.
NextRequest ==
    /\ spc = "sent"
    /\ spc' = "accept"
    /\ req' = NoRequest
    /\ hbuf' = <<>>
    /\ wire' = <<>>
    /\ UNCHANGED <<argv, port, bound, srvExit, calls>>

\* The server is interrupted (KeyboardInterrupt): sys.exit(0).
Interrupt ==
    /\ spc = "accept"
    /\ spc' = "exited"
    /\ srvExit' = <<0>>
    /\ UNCHANGED <<argv, port, bound, req, calls, hbuf, wire>>

-----------------------------------------------------------------------------
(* The specifications. *)

\* The server before it is started.
SrvIdle ==
    /\ argv = <<ScriptName>>
    /\ spc = "main"
    /\ port = NoPort
    /\ bound = NoPort
    /\ srvExit = Running
    /\ req = NoRequest
    /\ calls = <<>>
    /\ hbuf = <<>>
    /\ wire = <<>>

\* The generator before it is started, with its own mapping.
GenIdle ==
    /\ pc = "load"
    /\ fs = [exists |-> FALSE, body |-> <<>>]
    /\ template = NoTemplate
    /\ mapping = latencies_to_node_count
    /\ it = 0
    /\ hostlist = <<>>
    /\ renderArgs = <<>>
    /\ rendered = NoOutput
    /\ stdout = <<>>
    /\ exitCode = Running
    /\ run = 1
    /\ prevHostlist = <<>>
    /\ prevStdout = <<>>

Init == GenInit /\ SrvIdle

Next ==
    \/ LoadTemplateFails /\ UNCHANGED srvVars
    \/ LoadTemplate /\ UNCHANGED srvVars
    \/ InitHostlist /\ UNCHANGED srvVars
    \/ LoopIteration /\ UNCHANGED srvVars
    \/ LoopEnd /\ UNCHANGED srvVars
    \/ RenderFails /\ UNCHANGED srvVars
    \/ Render /\ UNCHANGED srvVars
    \/ PrintOutput /\ UNCHANGED srvVars
    \/ Exit /\ UNCHANGED srvVars

\* One run of main.py.
Spec == Init /\ [][Next]_vars

NextRerun ==
    \/ Next
    \/ Reinvoke /\ UNCHANGED srvVars

\* main.py run MaxRuns times in a row on the same inputs.
SpecRerun == Init /\ [][NextRerun]_vars

InitServer == GenIdle /\ SrvInit

NextServer ==
    \/ MainFails /\ UNCHANGED genVars
    \/ Main /\ UNCHANGED genVars
    \/ BindFails /\ UNCHANGED genVars
    \/ Bind /\ UNCHANGED genVars
    \/ Accept /\ UNCHANGED genVars
    \/ DoSendResponse /\ UNCHANGED genVars
    \/ DoSendHeader /\ UNCHANGED genVars
    \/ DoEndHeaders /\ UNCHANGED genVars
    \/ DoBody /\ UNCHANGED genVars
    \/ Finish /\ UNCHANGED genVars
    \/ NextRequest /\ UNCHANGED genVars
    \/ Interrupt /\ UNCHANGED genVars

\* One run of script.py.
SpecServer == InitServer /\ [][NextServer]_vars

-----------------------------------------------------------------------------
(* Properties of the host-list builder (main.py). *)

\* The sum of the counts of the items of m.
RECURSIVE SumCounts(_)
SumCounts(m) == IF m = <<>> THEN 0 ELSE m[1][2] + SumCounts(Tail(m))

\* The items of m the loop has been through.
Consumed == IF it = 0 THEN <<>> ELSE SubSeq(mapping, 1, it - 1)

\* The loop has been through every item of the mapping.
Built == it > Len(mapping)

\* The items of m whose count is not zero, in order.
RECURSIVE WithoutZeroCounts(_)
WithoutZeroCounts(m) ==
    IF m = <<>> THEN <<>>
    ELSE IF m[1][2] = 0 THEN WithoutZeroCounts(Tail(m))
    ELSE <<m[1]>> \o WithoutZeroCounts(Tail(m))

IsPrefix(s, t) == Len(s) <= Len(t) /\ SubSeq(t, 1, Len(s)) = s

\* C1: after every iteration the host list is as long as the sum of the
\* counts of the items gone through, so the finished list has length
\* c1+...+cN; for the hard-coded mapping (1, 2, 3, 4) that is 10.
C1_LengthIsSumOfCounts ==
    /\ Len(hostlist) = SumCounts(Consumed)
    /\ Built => Len(hostlist) = SumCounts(mapping)
    /\ Built /\ mapping = latencies_to_node_count => Len(hostlist) = 10

C1_Witness ==
    /\ Built
    /\ mapping = latencies_to_node_count
    /\ Len(hostlist) = 10

\* C2: the finished host list holds, for each item (label, count) and in the
\* order of the items, the descriptors of indices 0..count-1 in increasing
\* order, each with name "drand_container_{label}_{index}", latency label and
\* volume_name "drand_volume_{label}_{index}"; {"100ms": 1, "200ms": 2}
\* yields 100ms_0, 200ms_0, 200ms_1.
C2_DescriptorsInOrder ==
    /\ Built =>
        \A e \in DOMAIN mapping : \A i \in 0..(mapping[e][2] - 1) :
            LET label == mapping[e][1]
                pos   == SumCounts(SubSeq(mapping, 1, e - 1)) + i + 1
            IN  /\ pos \in DOMAIN hostlist
                /\ hostlist[pos] =
                     [name        |-> "drand_container_" \o label \o "_" \o ToString(i),
                      latency     |-> label,
                      volume_name |-> "drand_volume_" \o label \o "_" \o ToString(i)]
    /\ Built /\ mapping = << <<"100ms", 1>>, <<"200ms", 2>> >> =>
        hostlist =
          << [name |-> "drand_container_100ms_0", latency |-> "100ms",
              volume_name |-> "drand_volume_100ms_0"],
             [name |-> "drand_container_200ms_0", latency |-> "200ms",
              volume_name |-> "drand_volume_200ms_0"],
             [name |-> "drand_container_200ms_1", latency |-> "200ms",
              volume_name |-> "drand_volume_200ms_1"] >>

C2_Witness ==
    /\ Built
    /\ mapping = << <<"100ms", 1>>, <<"200ms", 2>> >>
    /\ Len(hostlist) = 3
    /\ hostlist[3].name = "drand_container_200ms_1"

\* C3: at every point of the run no two descriptors at different positions of
\* the host list share name, and no two share volume_name.
C3_NamesUnique ==
    \A p, q \in DOMAIN hostlist :
        p # q => /\ hostlist[p].name # hostlist[q].name
                 /\ hostlist[p].volume_name # hostlist[q].volume_name

C3_Witness ==
    /\ Built
    /\ Len(hostlist) >= 4
    /\ \E p, q \in DOMAIN hostlist :
        hostlist[p].latency = "a" /\ hostlist[q].latency = "a_0"

\* C4: a label whose count is 0 contributes no descriptor, and the finished
\* host list is the one the program builds from the mapping without its
\* zero-count items.
C4_ZeroCountContributesNothing ==
    Built =>
        /\ \A e \in DOMAIN mapping : mapping[e][2] = 0 =>
              \A p \in DOMAIN hostlist : hostlist[p].latency # mapping[e][1]
        /\ LET m == WithoutZeroCounts(mapping)
           IN  hostlist = HostlistOf(m, Len(m))

C4_Witness ==
    /\ Built
    /\ Len(mapping) = 3
    /\ mapping[2][2] = 0
    /\ mapping[1][2] > 0
    /\ mapping[3][2] > 1
    /\ Len(hostlist) = mapping[1][2] + mapping[3][2]

\* The template file is missing or is not a valid template.
BadTemplateFile == ~fs.exists \/ \E k \in DOMAIN fs.body : fs.body[k] = "{%"

\* C6: with the template file missing or invalid the run ends with a non-zero
\* status before anything else is done: nothing is rendered, nothing is
\* written to standard output, and the load is not tried again.
C6_BadTemplateNoOutput ==
    BadTemplateFile =>
        /\ pc \in {"load", "exited"}
        /\ stdout = <<>>
        /\ renderArgs = <<>>
        /\ rendered = NoOutput
        /\ exitCode \in {Running, <<1>>}
        /\ pc = "exited" => exitCode = <<1>>

C6_Witness ==
    /\ fs.exists
    /\ BadTemplateFile
    /\ pc = "exited"
    /\ exitCode = <<1>>
    /\ stdout = <<>>

C9_LoadBuildRenderPrint ==
    /\ it >= 1 => template.loaded
    /\ Len(renderArgs) <= 1
    /\ Len(stdout) <= 1
    /\ renderArgs # <<>> =>
        /\ Built
        /\ DOMAIN renderArgs[1] = {"hosts"}
        /\ renderArgs[1].hosts = hostlist
        /\ Len(renderArgs[1].hosts) = SumCounts(mapping)
    /\ stdout # <<>> =>
        /\ renderArgs # <<>>
        /\ rendered # NoOutput
        /\ stdout[1] = rendered \o "\n"
    /\ pc = "exited" /\ exitCode = <<0>> => Len(renderArgs) = 1 /\ Len(stdout) = 1

C9_Witness ==
    /\ pc = "exited"
    /\ exitCode = <<0>>
    /\ Len(stdout) = 1
    /\ Len(renderArgs) = 1
    /\ Len(renderArgs[1].hosts) = 10

\* C10: no step of the run changes the mapping, and the host list before a
\* step is a prefix of the host list after it.
C10_AppendOnly ==
    [][mapping' = mapping /\ IsPrefix(hostlist, hostlist')]_vars

C10_Witness ==
    /\ pc = "loop"
    /\ it = 4
    /\ mapping[1][2] > 0 /\ mapping[2][2] > 0 /\ mapping[3][2] > 0
    /\ Len(hostlist) = SumCounts(mapping)

-----------------------------------------------------------------------------
(* Properties of the static file server (script.py). *)

ACAO == "Access-Control-Allow-Origin: *\r\n"
EndOfHeaders == "\r\n"

\* C5, as claimed: every response the server has sent carries the header
\* Access-Control-Allow-Origin: *.
C5_EveryResponseHasHeader ==
    spc = "sent" => \E k \in DOMAIN wire : wire[k] = ACAO

\* C5, amended: every response to a request whose request line carries an
\* HTTP version (HTTP/1.0, HTTP/1.1) carries the header, whatever its status,
\* and no response has its headers ended without the header sent before.
C5_HeaderInEveryHeaderSection ==
    /\ spc = "sent" /\ req.version # "HTTP/0.9" =>
        \E k, j \in DOMAIN wire : k < j /\ wire[k] = ACAO /\ wire[j] = EndOfHeaders
    /\ \A j \in DOMAIN wire :
        wire[j] = EndOfHeaders => \E k \in 1..(j - 1) : wire[k] = ACAO

C5_Witness ==
    /\ spc = "sent"
    /\ req = [kind |-> "missing", version |-> "HTTP/1.1"]
    /\ wire[1] = "HTTP/1.0 404\r\n"
    /\ \E k \in DOMAIN wire : wire[k] = ACAO

\* The first arguments that name a TCP port, with the port each names.
GivenPorts ==
    { << <<"8", "0", "8", "0">>, 8080 >>,
      << <<"8", "0", "0", "0">>, 8000 >>,
      << <<"9", "0">>, 90 >>,
      << <<"+", "8", "1">>, 81 >>,
      << <<" ", "9", "0", "0", "1", " ">>, 9001 >>,
      << <<"8", "_", "0", "8", "8">>, 8088 >>,
      << <<"8", "0", "8", "1">>, 8081 >> }

\* C8: the port handed to the server, and the port the server is bound to, is
\* the one the first argument names when there is one, and 8000 when there is
\* no argument.
C8_PortFromArgument ==
    /\ Len(argv) = 1 =>
        /\ spc \notin {"main"} => port = <<8000>>
        /\ bound # NoPort => bound = <<8000>>
    /\ \A g \in GivenPorts :
        Len(argv) > 1 /\ argv[2] = g[1] =>
            /\ spc \notin {"main"} => port = <<g[2]>>
            /\ bound # NoPort => bound = <<g[2]>>

C8_Witness ==
    /\ Len(argv) = 2
    /\ argv[2] = <<"8", "0", "8", "0">>
    /\ bound = <<8080>>
    /\ spc = "sent"

=============================================================================
